---- MODULE Spec2Model ----
(***************************************************************************)
(* The Express service of src/unnamed/part_003 (the application's main     *)
(* script): the request-metrics middleware, the route handlers, the        *)
(* startup connection routine, the SIGTERM handler and the process exits;  *)
(* and the CI pipeline of src/Jenkinsfile.                                 *)
(*                                                                         *)
(* One action of the service is one run-to-completion step of the Node.js  *)
(* event loop: the code between the arrival of an event (a request, a      *)
(* signal, the settlement of an awaited promise, the 'finish' event of a   *)
(* response) and the next await or return.  The cache server and the       *)
(* document store are the environment; each is "up" (calls succeed),       *)
(* "down" (calls fail) or "hung" (calls get no answer).  One action of the *)
(* pipeline is one stage of a run, or one step of a stage that waits.      *)
(***************************************************************************)
EXTENDS Naturals, Sequences, FiniteSets, Bags, TLC

\* ------------------------------------------------------------------------
\* Bounds of the model
\* ------------------------------------------------------------------------

\* Requests that arrive in one run.
MaxRequests == 3

\* Requests being handled at the same time.
MaxInflight == 2

\* Deliveries of the termination signal in one run.
MaxSignals == 2

\* Requests that arrive in one run in which the signal may be delivered.
MaxShutdownRequests == 1

\* Requests that arrive in one run in which clients may disconnect.
MaxDisconnectRequests == 2

\* ------------------------------------------------------------------------
\* Program constants
\* ------------------------------------------------------------------------

\* Documents in the visits collection when the service starts: the sample
\* document of init-mongo.js.
InitialVisits == 1

\* The route paths registered with app.get.
RegisteredRoutes ==
    {"/", "/metrics", "/redis-test", "/mongo-test", "/health", "/crash"}

\* ------------------------------------------------------------------------
\* Inputs
\* ------------------------------------------------------------------------

\* A request is its method and its URL, a path and a query string.
RequestInputs ==
    {[method |-> "GET", path |-> p, query |-> ""] : p \in RegisteredRoutes}
    \cup {[method |-> "GET", path |-> "/nope", query |-> ""],
          [method |-> "GET", path |-> "/mongo-test", query |-> "x=1"],
          [method |-> "POST", path |-> "/", query |-> ""]}

ServerStates == {"up", "down", "hung"}

\* The states in which a server answers the calls made to it.
Answering == {"up", "down"}

\* ------------------------------------------------------------------------
\* JavaScript values held under the cache key: null, a decimal string, a
\* number.
\* ------------------------------------------------------------------------

JsNull == <<"null", 0>>

JsStr(n) == <<"string", n>>

JsNum(n) == <<"number", n>>

\* v || 0 : null and the number 0 are falsy; a decimal string is never
\* empty, so it is truthy, "0" included.
OrZero(v) ==
    IF v[1] = "null" \/ (v[1] = "number" /\ v[2] = 0) THEN JsNum(0) ELSE v

\* parseInt of a number or of a decimal string.
parseInt(v) == v[2]

\* The value SET stores for a number argument: its decimal string.
RedisSetValue(n) == JsStr(n)

VARIABLES
    exitCode,            \* "running", or the exit code of the process: "0", "1"
    redisServer,         \* environment: the cache server
    mongoServer,         \* environment: the document store
    redisStore,          \* the value under the key visit_count
    visits,              \* the number of documents in the visits collection
    startPc,             \* where connectDatabases is
    redisClient,         \* the state of the cache client
    mongoClient,         \* whether mongoClient has been assigned
    db,                  \* whether db has been assigned
    inflight,            \* the bag of requests being handled
    nArrived,            \* requests arrived so far
    httpRequestCount,    \* the counter: label triple -> value
    httpRequestDuration, \* the histogram: label triple -> observations
    finished,            \* history: the responses whose finish event fired
    overlapped,          \* history: two /redis-test requests overlapped
    mongoOverlapped,     \* history: two /mongo-test requests overlapped
    metricsThrown,       \* history: a metrics call raised an error
    listening,           \* whether the server accepts connections
    sigterm,             \* the bag of running SIGTERM handlers, by position
    nSignals,            \* deliveries of SIGTERM so far
    closeCalls,          \* history: calls of quit() and of close() so far
    run,                 \* the run of the CI pipeline (src/Jenkinsfile)
    traced,              \* whether requests keep the history of their arrival
    quota                \* the number of requests that arrive in this run

vars ==
    <<exitCode, redisServer, mongoServer, redisStore, visits, startPc,
      redisClient, mongoClient, db, inflight, nArrived, httpRequestCount,
      httpRequestDuration, finished, overlapped, mongoOverlapped,
      metricsThrown, listening, sigterm, nSignals, closeCalls, run, traced,
      quota>>

\* What is fixed when a run starts.
scopeVars == <<traced, quota>>

envVars == <<redisServer, mongoServer>>

startVars == <<startPc, redisClient, mongoClient, db>>

storeVars == <<redisStore, visits>>

metricVars == <<httpRequestCount, httpRequestDuration, finished, metricsThrown>>

shutVars == <<listening, sigterm, nSignals, closeCalls>>

\* The variables of the service: all but the pipeline run.
serviceVars ==
    <<exitCode, envVars, storeVars, startVars, inflight, nArrived, metricVars,
      overlapped, mongoOverlapped, shutVars, scopeVars>>

\* ------------------------------------------------------------------------
\* Helpers
\* ------------------------------------------------------------------------

Running == exitCode = "running"

Requests == BagToSet(inflight)

NoRes == [status |-> 0, body |-> [kind |-> "none"]]

NoHealth == [status |-> "OK", redis |-> "unset", mongodb |-> "unset"]

\* History a request keeps of its dependency calls: how the last cache call
\* and the last store call settled ("throw": a TypeError before any call),
\* and whether the server was up when it did.
NoProbes ==
    [redis |-> "none", mongo |-> "none", cacheUp |-> FALSE, storeUp |-> FALSE]

\* The positions at which a handler waits for a cache call, for a store
\* call.
CacheWaits == {"redis_get", "redis_set", "health_redis"}

StoreWaits == {"mongo_insert", "mongo_count", "health_mongo"}

\* The dependencies whose connection connectDatabases has not established
\* yet and has not given up on.
Pending ==
    CASE startPc = "redis_connect" -> {"redis", "mongodb"}
      [] startPc = "mongo_connect" -> {"mongodb"}
      [] OTHER -> {}

\* History, kept in the runs that trace arrivals: the dependencies a
\* request of this route uses whose connection is pending when the request
\* arrives.
Early(in) ==
    IF ~traced \/ in.method # "GET" THEN {}
    ELSE CASE in.path = "/redis-test" -> Pending \cap {"redis"}
           [] in.path = "/mongo-test" -> Pending \cap {"mongodb"}
           [] in.path = "/health" -> Pending
           [] OTHER -> {}

\* The request object the middleware and the handler share.
NewRequest(in, pc) ==
    [method |-> in.method, path |-> in.path, query |-> in.query, pc |-> pc,
     newCount |-> 0, health |-> NoHealth, probes |-> NoProbes,
     res |-> NoRes, outcome |-> "none", flushed |-> FALSE,
     finishedBefore |-> 0, early |-> Early(in), gone |-> FALSE]

Add(r) == inflight (+) SetToBag({r})

Replace(r, r2) == (inflight (-) SetToBag({r})) (+) SetToBag({r2})

Remove(r) == inflight (-) SetToBag({r})

\* Mutant: the listener is started only once connectDatabases has
\* connected both clients.
CanArrive_AfterStartup ==
    /\ Running
    /\ listening
    /\ startPc = "done"
    /\ nArrived < quota
    /\ BagCardinality(inflight) < MaxInflight

\* Mutant: a handler that waits for a dependency call holds the event loop,
\* no request is accepted until the call has returned.
CanArrive_Blocking ==
    /\ Running
    /\ listening
    /\ nArrived < quota
    /\ BagCardinality(inflight) < MaxInflight
    /\ \A r \in Requests : r.pc \in {"responded", "metrics_await"}

\* A request can arrive: app.listen (lines 166-168) has been called at
\* load time and the server has not been closed.
CanArrive ==
    /\ Running
    /\ listening
    /\ nArrived < quota
    /\ BagCardinality(inflight) < MaxInflight

\* The outcome an awaited cache command can settle with now.
RedisReply ==
    IF redisClient \in {"failed", "closed"} \/ redisServer = "down" THEN {"fail"}
    ELSE IF redisClient = "ready" /\ redisServer = "up" THEN {"ok"}
    ELSE {}

\* The outcome an awaited document-store command can settle with now.
MongoReply ==
    IF mongoServer = "down" THEN {"fail"}
    ELSE IF mongoServer = "up" THEN {"ok"}
    ELSE {}

\* ------------------------------------------------------------------------
\* Prometheus metrics (lines 26-47)
\* ------------------------------------------------------------------------

\* req.path: the path of the URL, without the query string.
ReqPath(r) == r.path

\* Mutant: the status code label is not read from the response.
FinishLabels_StatusOk(r) ==
    [method |-> r.method, route |-> ReqPath(r), status_code |-> 200]

\* The label object both metric calls of the finish callback are given.
FinishLabels(r) ==
    [method |-> r.method, route |-> ReqPath(r), status_code |-> r.res.status]

\* Mutant: a call with labels keeps the sample of these labels only and
\* starts it again.
Observe_Resets(metric, labels) == labels :> 1

\* Counter.inc(labels) and the timer's end(labels): the sample of a label
\* combination is created at its first use and then added to.
Observe(metric, labels) ==
    IF labels \in DOMAIN metric
    THEN [metric EXCEPT ![labels] = @ + 1]
    ELSE metric @@ (labels :> 1)

\* Mutant: the callback increments the counter twice.
FinishCount_Twice(r) ==
    Observe(Observe(httpRequestCount, FinishLabels(r)), FinishLabels(r))

\* What the callback of res.on('finish') does to the counter ...
FinishCount(r) == Observe(httpRequestCount, FinishLabels(r))

\* Mutant: the callback does not call end(labels).
FinishDuration_NotObserved(r) == httpRequestDuration

\* ... and to the histogram.
FinishDuration(r) == Observe(httpRequestDuration, FinishLabels(r))

\* History: the response as it went out.
Sent(r) ==
    [method |-> r.method, path |-> r.path, status |-> r.res.status,
     outcome |-> r.outcome]

\* ------------------------------------------------------------------------
\* Responses of the route handlers
\* ------------------------------------------------------------------------

\* No route matches: the framework's final handler answers 404.
NotFoundResponse == [status |-> 404, body |-> [kind |-> "not found"]]

\* res.send('Hello World! ...')
RootResponse == [status |-> 200, body |-> [kind |-> "text"]]

\* res.send("Service is crashing...")
CrashResponse == [status |-> 200, body |-> [kind |-> "crash"]]

\* Mutant: the counter is not in the registry that is rendered.
MetricsResponse_NoCounter ==
    [status |-> 200, body |-> [kind |-> "metrics", count_samples |-> 0]]

\* res.end(await client.register.metrics())
MetricsResponse ==
    [status |-> 200,
     body |-> [kind |-> "metrics",
               count_samples |-> Cardinality(DOMAIN httpRequestCount)]]

\* res.json({message, visit_count, timestamp})
RedisTestResponse(newCount) ==
    [status |-> 200, body |-> [kind |-> "redis", visit_count |-> newCount]]

\* Mutant: the catch block answers without setting the status.
RedisTestError_StatusNotSet ==
    [status |-> 200,
     body |-> [kind |-> "error", error |-> "Redis connection failed",
               details |-> "error.message"]]

\* res.status(500).json({error: 'Redis connection failed', details})
RedisTestError ==
    [status |-> 500,
     body |-> [kind |-> "error", error |-> "Redis connection failed",
               details |-> "error.message"]]

\* res.json({message, insertedId, total_visits, timestamp})
MongoTestResponse(totalVisits) ==
    [status |-> 200, body |-> [kind |-> "mongo", total_visits |-> totalVisits]]

\* Mutant: the catch block leaves the details out of the body.
MongoTestError_NoDetails ==
    [status |-> 500,
     body |-> [kind |-> "error", error |-> "MongoDB connection failed"]]

\* res.status(500).json({error: 'MongoDB connection failed', details})
MongoTestError ==
    [status |-> 500,
     body |-> [kind |-> "error", error |-> "MongoDB connection failed",
               details |-> "error.message"]]

\* const health = {status: 'OK', timestamp, services: {}}
HealthInit == NoHealth

\* Mutant: the cache entry is taken from the client's connection state, not
\* from the ping of this request.
HealthRedis_FromClientState(health, outcome) ==
    IF redisClient = "ready"
    THEN [health EXCEPT !.redis = "connected"]
    ELSE [health EXCEPT !.redis = "disconnected", !.status = "DEGRADED"]

\* The first try/catch of the health handler, given how the ping settled.
HealthRedis(health, outcome) ==
    IF outcome = "ok"
    THEN [health EXCEPT !.redis = "connected"]
    ELSE [health EXCEPT !.redis = "disconnected", !.status = "DEGRADED"]

\* Mutant: the second catch does not downgrade the overall status.
HealthMongo_NoDowngrade(health, outcome) ==
    IF outcome = "ok"
    THEN [health EXCEPT !.mongodb = "connected"]
    ELSE [health EXCEPT !.mongodb = "disconnected"]

\* The second try/catch of the health handler.
HealthMongo(health, outcome) ==
    IF outcome = "ok"
    THEN [health EXCEPT !.mongodb = "connected"]
    ELSE [health EXCEPT !.mongodb = "disconnected", !.status = "DEGRADED"]

\* Mutant: a degraded report is sent as 503.
HealthResponse_503(health) ==
    [status |-> IF health.status = "DEGRADED" THEN 503 ELSE 200,
     body |-> [kind |-> "health", status |-> health.status,
               redis |-> health.redis, mongodb |-> health.mongodb]]

\* res.json(health): the status code is left at its default.
HealthResponse(health) ==
    [status |-> 200,
     body |-> [kind |-> "health", status |-> health.status,
               redis |-> health.redis, mongodb |-> health.mongodb]]

\* The handler has called res.send / res.json / res.end.
Respond(r, res, outcome) ==
    [r EXCEPT !.pc = "responded", !.res = res, !.outcome = outcome]

\* The request after an awaited cache command has settled with `outcome`.
CacheCalled(r, outcome) ==
    [r EXCEPT !.probes.redis = outcome, !.probes.cacheUp = (redisServer = "up")]

\* The request after an awaited store command has settled with `outcome`,
\* or after db / mongoClient was found undefined ("throw").
StoreCalled(r, outcome) ==
    [r EXCEPT !.probes.mongo = outcome, !.probes.storeUp = (mongoServer = "up")]

\* ------------------------------------------------------------------------
\* The CI pipeline (src/Jenkinsfile): parameters, stages, the state of a run
\* ------------------------------------------------------------------------

\* choice TARGET_ENVIRONMENT
Environments == {"dev", "qa", "staging", "prod"}

\* The environments whose deployment has an approval stage.
GatedEnvironments == {"qa", "staging", "prod"}

\* The stages, in the order of the stages block.
Stages ==
    <<"Checkout & Initialize", "Build Preparation", "Build & Test",
      "Push to Registry", "Deploy to Dev", "QA Approval", "Deploy to QA",
      "Staging Approval", "Deploy to Staging", "Production Approval",
      "Deploy to Production">>

\* The position of a stage in the stages block.
StageNo(name) == CHOOSE i \in 1..Len(Stages) : Stages[i] = name

\* The stage index of a run whose stages are over: the post block has run.
Finished == Len(Stages) + 1

ApprovalStage(e) ==
    CASE e = "qa" -> StageNo("QA Approval")
      [] e = "staging" -> StageNo("Staging Approval")
      [] e = "prod" -> StageNo("Production Approval")

DeployStage(e) ==
    CASE e = "dev" -> StageNo("Deploy to Dev")
      [] e = "qa" -> StageNo("Deploy to QA")
      [] e = "staging" -> StageNo("Deploy to Staging")
      [] e = "prod" -> StageNo("Deploy to Production")

\* A run that has been started with the given parameters on the given
\* branch; inRegistry: the registry already holds an image with this run's
\* build tag.
NewRun(target, forceRebuild, skipTests, branch, inRegistry) ==
    [target |-> target, forceRebuild |-> forceRebuild, skipTests |-> skipTests,
     branch |-> branch, inRegistry |-> inRegistry,
     stage |-> 1, result |-> "running", imageExists |-> FALSE,
     skipBuild |-> "unset",
     build |-> "todo", tests |-> "todo", waiting |-> FALSE,
     built |-> {}, pushed |-> {}, approved |-> {}, refused |-> {},
     deployed |-> {}]

\* No run: the state of the pipeline in the runs of the service.
NoRun ==
    [NewRun("dev", FALSE, FALSE, "main", FALSE) EXCEPT
        !.stage = Finished, !.result = "none"]

\* ------------------------------------------------------------------------
\* Initial state: the module has been loaded; connectDatabases() has been
\* called and waits for redisClient.connect(); the listener is up.
\* ------------------------------------------------------------------------

InitService ==
    /\ exitCode = "running"
    /\ redisServer \in Answering
    /\ mongoServer \in Answering
    /\ redisStore = JsNull
    /\ visits = InitialVisits
    /\ startPc = "redis_connect"
    /\ redisClient = "connecting"
    /\ mongoClient = FALSE
    /\ db = FALSE
    /\ inflight = EmptyBag
    /\ nArrived = 0
    /\ httpRequestCount = <<>>
    /\ httpRequestDuration = <<>>
    /\ finished = EmptyBag
    /\ overlapped = FALSE
    /\ mongoOverlapped = FALSE
    /\ metricsThrown = FALSE
    /\ listening = TRUE
    /\ sigterm = EmptyBag
    /\ nSignals = 0
    /\ closeCalls = [redis |-> 0, mongo |-> 0]

\* The service starts; no pipeline run is looked at.
Init ==
    /\ InitService
    /\ run = NoRun
    /\ traced = FALSE
    /\ quota = MaxRequests

\* The same, in a run in which clients may disconnect.
InitDisconnect ==
    /\ InitService
    /\ run = NoRun
    /\ traced = FALSE
    /\ quota = MaxDisconnectRequests

\* The same, in a run in which the signal may be delivered.
InitShutdown ==
    /\ InitService
    /\ run = NoRun
    /\ traced = FALSE
    /\ quota = MaxShutdownRequests

\* The same, the requests keeping the history of their arrival.
InitTraced ==
    /\ InitService
    /\ run = NoRun
    /\ traced = TRUE
    /\ quota = MaxRequests

\* ------------------------------------------------------------------------
\* The environment
\* ------------------------------------------------------------------------

RedisServerChanges(s) ==
    /\ Running
    /\ s # redisServer
    /\ redisServer' = s
    /\ UNCHANGED <<exitCode, mongoServer, storeVars, startVars, inflight,
                   nArrived, metricVars, overlapped, mongoOverlapped,
                   shutVars, run, scopeVars>>

MongoServerChanges(s) ==
    /\ Running
    /\ s # mongoServer
    /\ mongoServer' = s
    /\ UNCHANGED <<exitCode, redisServer, storeVars, startVars, inflight,
                   nArrived, metricVars, overlapped, mongoOverlapped,
                   shutVars, run, scopeVars>>

\* ------------------------------------------------------------------------
\* connectDatabases (lines 56-70)
\* ------------------------------------------------------------------------

\* await redisClient.connect() resolves; mongoClient = new MongoClient(...);
\* mongoClient.connect() is awaited.
RedisConnected ==
    /\ Running
    /\ startPc = "redis_connect"
    /\ redisServer = "up"
    /\ redisClient' = "ready"
    /\ mongoClient' = TRUE
    /\ startPc' = "mongo_connect"
    /\ UNCHANGED <<exitCode, envVars, storeVars, db, inflight, nArrived,
                   metricVars, overlapped, mongoOverlapped, shutVars, run,
                   scopeVars>>

\* await redisClient.connect() rejects: the catch logs, the routine ends.
RedisConnectFailed ==
    /\ Running
    /\ startPc = "redis_connect"
    /\ redisServer = "down"
    /\ redisClient' = "failed"
    /\ startPc' = "failed"
    /\ UNCHANGED <<exitCode, envVars, storeVars, mongoClient, db, inflight,
                   nArrived, metricVars, overlapped, mongoOverlapped,
                   shutVars, run, scopeVars>>

\* Mutant: the store connection is tried again after the routine has given
\* up.
MongoConnected_Retries ==
    /\ Running
    /\ startPc \in {"mongo_connect", "failed"}
    /\ mongoServer = "up"
    /\ mongoClient' = TRUE
    /\ db' = TRUE
    /\ startPc' = "done"
    /\ UNCHANGED <<exitCode, envVars, storeVars, redisClient, inflight,
                   nArrived, metricVars, overlapped, mongoOverlapped,
                   shutVars, run, scopeVars>>

\* await mongoClient.connect() resolves; db = mongoClient.db(MONGO_DB_NAME).
MongoConnected ==
    /\ Running
    /\ startPc = "mongo_connect"
    /\ mongoServer = "up"
    /\ db' = TRUE
    /\ startPc' = "done"
    /\ UNCHANGED <<exitCode, envVars, storeVars, redisClient, mongoClient,
                   inflight, nArrived, metricVars, overlapped,
                   mongoOverlapped, shutVars, run, scopeVars>>

\* await mongoClient.connect() rejects: the catch logs, the routine ends.
MongoConnectFailed ==
    /\ Running
    /\ startPc = "mongo_connect"
    /\ mongoServer = "down"
    /\ startPc' = "failed"
    /\ UNCHANGED <<exitCode, envVars, storeVars, redisClient, mongoClient, db,
                   inflight, nArrived, metricVars, overlapped,
                   mongoOverlapped, shutVars, run, scopeVars>>

connectDatabases ==
    \/ RedisConnected
    \/ RedisConnectFailed
    \/ MongoConnected
    \/ MongoConnectFailed

\* ------------------------------------------------------------------------
\* Requests: the middleware (lines 40-47) starts the timer, registers the
\* finish callback and calls next(); the router runs the matching handler
\* up to its first await.
\* ------------------------------------------------------------------------

\* The route app.get registered for this request, if any.
Route(in) ==
    IF in.method = "GET" /\ in.path \in RegisteredRoutes
    THEN in.path
    ELSE "none"

\* No handler matches: 404.
NotFound(in) ==
    /\ CanArrive
    /\ Route(in) = "none"
    /\ inflight' = Add(Respond(NewRequest(in, "start"), NotFoundResponse, "notfound"))
    /\ nArrived' = nArrived + 1
    /\ UNCHANGED <<exitCode, envVars, storeVars, startVars, metricVars,
                   overlapped, mongoOverlapped, shutVars, run, scopeVars>>

\* app.get('/') (lines 76-78)
GetRoot(in) ==
    /\ CanArrive
    /\ Route(in) = "/"
    /\ inflight' = Add(Respond(NewRequest(in, "start"), RootResponse, "ok"))
    /\ nArrived' = nArrived + 1
    /\ UNCHANGED <<exitCode, envVars, storeVars, startVars, metricVars,
                   overlapped, mongoOverlapped, shutVars, run, scopeVars>>

\* Mutant: /crash shuts down as the SIGTERM handler does and exits with 0.
GetCrash_Graceful(in) ==
    /\ CanArrive
    /\ Route(in) = "/crash"
    /\ \E flushed \in BOOLEAN :
          inflight' = Add([Respond(NewRequest(in, "start"), CrashResponse, "ok")
                              EXCEPT !.flushed = flushed])
    /\ nArrived' = nArrived + 1
    /\ exitCode' = "0"
    /\ listening' = FALSE
    /\ closeCalls' = [redis |-> closeCalls.redis + 1,
                      mongo |-> closeCalls.mongo + 1]
    /\ UNCHANGED <<envVars, storeVars, startVars, metricVars, overlapped,
                   mongoOverlapped, sigterm, nSignals, run, scopeVars>>

\* app.get('/crash') (lines 152-164): res.send, then process.exit(1) in the
\* same step.  res.send hands the response to the socket; whether the
\* write has completed when the process exits (flushed) is decided by the
\* socket, and the exit does not wait for the response's finish event.
GetCrash(in) ==
    /\ CanArrive
    /\ Route(in) = "/crash"
    /\ \E flushed \in BOOLEAN :
          inflight' = Add([Respond(NewRequest(in, "start"), CrashResponse, "ok")
                              EXCEPT !.flushed = flushed])
    /\ nArrived' = nArrived + 1
    /\ exitCode' = "1"
    /\ UNCHANGED <<envVars, storeVars, startVars, metricVars, overlapped,
                   mongoOverlapped, shutVars, run, scopeVars>>

\* app.get('/metrics') (lines 50-53), up to the await.
GetMetrics(in) ==
    /\ CanArrive
    /\ Route(in) = "/metrics"
    /\ inflight' = Add(NewRequest(in, "metrics_await"))
    /\ nArrived' = nArrived + 1
    /\ UNCHANGED <<exitCode, envVars, storeVars, startVars, metricVars,
                   overlapped, mongoOverlapped, shutVars, run, scopeVars>>

\* client.register.metrics() has resolved: res.end(...).
MetricsRendered(r) ==
    /\ Running
    /\ r.pc = "metrics_await"
    /\ inflight' = Replace(r, [Respond(r, MetricsResponse, "ok") EXCEPT
                                   !.finishedBefore = BagCardinality(finished)])
    /\ UNCHANGED <<exitCode, envVars, storeVars, startVars, nArrived,
                   metricVars, overlapped, mongoOverlapped, shutVars, run,
                   scopeVars>>

\* app.get('/redis-test') (lines 81-96), up to await redisClient.get(key).
GetRedisTest(in) ==
    /\ CanArrive
    /\ Route(in) = "/redis-test"
    /\ inflight' = Add(NewRequest(in, "redis_get"))
    /\ nArrived' = nArrived + 1
    /\ overlapped' = (overlapped \/ \E o \in Requests : Route(o) = "/redis-test")
    /\ UNCHANGED <<exitCode, envVars, storeVars, startVars, metricVars,
                   mongoOverlapped, shutVars, run, scopeVars>>

\* Mutant: the value read is dropped and the default 0 is always used.
NewCount_IgnoresStored(got) == parseInt(JsNum(0)) + 1

\* const newCount = parseInt(currentCount) + 1, for the value get returned.
NewCount(got) == parseInt(OrZero(got)) + 1

\* Mutant: the /redis-test handler connects the client again when the read
\* is rejected.
RedisGetSettled_Reconnects(r, outcome) ==
    /\ Running
    /\ r.pc = "redis_get"
    /\ outcome \in RedisReply
    /\ LET r1 == CacheCalled(r, outcome)
       IN  inflight' =
             IF outcome = "ok"
             THEN Replace(r, [r1 EXCEPT !.pc = "redis_set",
                                        !.newCount = NewCount(redisStore)])
             ELSE Replace(r, Respond(r1, RedisTestError, "error"))
    /\ redisClient' = IF outcome = "ok" THEN redisClient ELSE "connecting"
    /\ UNCHANGED <<exitCode, envVars, storeVars, startPc, mongoClient, db,
                   nArrived, metricVars, overlapped, mongoOverlapped,
                   shutVars, run, scopeVars>>

\* redisClient.get settles: on success newCount is computed and
\* redisClient.set(key, newCount) is awaited; on failure the catch answers 500.
RedisGetSettled(r, outcome) ==
    /\ Running
    /\ r.pc = "redis_get"
    /\ outcome \in RedisReply
    /\ LET r1 == CacheCalled(r, outcome)
       IN  inflight' =
             IF outcome = "ok"
             THEN Replace(r, [r1 EXCEPT !.pc = "redis_set",
                                        !.newCount = NewCount(redisStore)])
             ELSE Replace(r, Respond(r1, RedisTestError, "error"))
    /\ UNCHANGED <<exitCode, envVars, storeVars, startVars, nArrived,
                   metricVars, overlapped, mongoOverlapped, shutVars, run,
                   scopeVars>>

\* Mutant: the count is computed again from the stored value when it is
\* written, as an atomic increment would.
SetArgument_ReadAgain(r) == NewCount(redisStore)

\* The count passed to redisClient.set and to res.json: the constant
\* newCount computed before the await of the write.
SetArgument(r) == r.newCount

\* Mutant: a write that is answered with an error has stored its value.
RedisSetSettled_StoresOnFailure(r, outcome) ==
    /\ Running
    /\ r.pc = "redis_set"
    /\ outcome \in RedisReply
    /\ redisStore' = RedisSetValue(SetArgument(r))
    /\ IF outcome = "ok"
       THEN inflight' = Replace(r, Respond(CacheCalled(r, outcome),
                                           RedisTestResponse(SetArgument(r)),
                                           "ok"))
       ELSE inflight' = Replace(r, Respond(CacheCalled(r, outcome),
                                           RedisTestError, "error"))
    /\ UNCHANGED <<exitCode, envVars, visits, startVars, nArrived, metricVars,
                   overlapped, mongoOverlapped, shutVars, run, scopeVars>>

\* Mutant: the write of a request whose client has gone is cancelled.
RedisSetSettled_Cancelled(r, outcome) ==
    /\ Running
    /\ r.pc = "redis_set"
    /\ outcome \in RedisReply
    /\ IF outcome = "ok"
       THEN /\ redisStore' = IF r.gone THEN redisStore
                             ELSE RedisSetValue(SetArgument(r))
            /\ inflight' = Replace(r, Respond(CacheCalled(r, outcome),
                                              RedisTestResponse(SetArgument(r)),
                                              "ok"))
       ELSE /\ redisStore' = redisStore
            /\ inflight' = Replace(r, Respond(CacheCalled(r, outcome),
                                              RedisTestError, "error"))
    /\ UNCHANGED <<exitCode, envVars, visits, startVars, nArrived, metricVars,
                   overlapped, mongoOverlapped, shutVars, run, scopeVars>>

\* redisClient.set settles: on success the value is stored and the handler
\* answers with newCount; on failure the catch answers 500.
RedisSetSettled(r, outcome) ==
    /\ Running
    /\ r.pc = "redis_set"
    /\ outcome \in RedisReply
    /\ IF outcome = "ok"
       THEN /\ redisStore' = RedisSetValue(SetArgument(r))
            /\ inflight' = Replace(r, Respond(CacheCalled(r, outcome),
                                              RedisTestResponse(SetArgument(r)),
                                              "ok"))
       ELSE /\ redisStore' = redisStore
            /\ inflight' = Replace(r, Respond(CacheCalled(r, outcome),
                                              RedisTestError, "error"))
    /\ UNCHANGED <<exitCode, envVars, visits, startVars, nArrived, metricVars,
                   overlapped, mongoOverlapped, shutVars, run, scopeVars>>

\* app.get('/mongo-test') (lines 99-120), up to await insertOne(visit).
\* db.collection throws a TypeError while db is undefined; the catch
\* answers 500.
GetMongoTest(in) ==
    /\ CanArrive
    /\ Route(in) = "/mongo-test"
    /\ inflight' =
         IF db
         THEN Add(NewRequest(in, "mongo_insert"))
         ELSE Add(Respond(StoreCalled(NewRequest(in, "start"), "throw"),
                          MongoTestError, "error"))
    /\ nArrived' = nArrived + 1
    /\ mongoOverlapped' =
         (mongoOverlapped \/ \E o \in Requests : Route(o) = "/mongo-test")
    /\ UNCHANGED <<exitCode, envVars, storeVars, startVars, metricVars,
                   overlapped, shutVars, run, scopeVars>>

\* Mutant: the visit is inserted twice.
InsertOne_Twice(n) == n + 2

\* The size of a collection of n documents after insertOne(visit).
InsertOne(n) == n + 1

\* insertOne settles: on success the document is in the collection and
\* countDocuments() is awaited.
MongoInsertSettled(r, outcome) ==
    /\ Running
    /\ r.pc = "mongo_insert"
    /\ outcome \in MongoReply
    /\ IF outcome = "ok"
       THEN /\ visits' = InsertOne(visits)
            /\ inflight' = Replace(r, [StoreCalled(r, outcome) EXCEPT
                                           !.pc = "mongo_count"])
       ELSE /\ visits' = visits
            /\ inflight' = Replace(r, Respond(StoreCalled(r, outcome),
                                              MongoTestError, "error"))
    /\ UNCHANGED <<exitCode, envVars, redisStore, startVars, nArrived,
                   metricVars, overlapped, mongoOverlapped, shutVars, run,
                   scopeVars>>

\* countDocuments settles.
MongoCountSettled(r, outcome) ==
    /\ Running
    /\ r.pc = "mongo_count"
    /\ outcome \in MongoReply
    /\ inflight' =
         IF outcome = "ok"
         THEN Replace(r, Respond(StoreCalled(r, outcome),
                                 MongoTestResponse(visits), "ok"))
         ELSE Replace(r, Respond(StoreCalled(r, outcome),
                                 MongoTestError, "error"))
    /\ UNCHANGED <<exitCode, envVars, storeVars, startVars, nArrived,
                   metricVars, overlapped, mongoOverlapped, shutVars, run,
                   scopeVars>>

\* app.get('/health') (lines 123-149), up to await redisClient.ping().
GetHealth(in) ==
    /\ CanArrive
    /\ Route(in) = "/health"
    /\ inflight' = Add([NewRequest(in, "health_redis") EXCEPT !.health = HealthInit])
    /\ nArrived' = nArrived + 1
    /\ UNCHANGED <<exitCode, envVars, storeVars, startVars, metricVars,
                   overlapped, mongoOverlapped, shutVars, run, scopeVars>>

\* The request once the second try/catch has run with `outcome`: the
\* report is sent.
HealthDone(r, health, outcome) ==
    Respond([StoreCalled(r, outcome) EXCEPT !.health = HealthMongo(health, outcome)],
            HealthResponse(HealthMongo(health, outcome)), "ok")

\* redisClient.ping() settles; the first try/catch sets services.redis.
\* Then the second try: mongoClient.db() throws a TypeError while
\* mongoClient is undefined, and the catch marks the store disconnected;
\* otherwise the store's ping is awaited.
HealthRedisSettled(r, outcome) ==
    /\ Running
    /\ r.pc = "health_redis"
    /\ outcome \in RedisReply
    /\ LET r1 == [CacheCalled(r, outcome) EXCEPT
                       !.health = HealthRedis(r.health, outcome)]
       IN  inflight' =
             IF mongoClient
             THEN Replace(r, [r1 EXCEPT !.pc = "health_mongo"])
             ELSE Replace(r, HealthDone(r1, r1.health, "throw"))
    /\ UNCHANGED <<exitCode, envVars, storeVars, startVars, nArrived,
                   metricVars, overlapped, mongoOverlapped, shutVars, run,
                   scopeVars>>

\* mongoClient.db().admin().ping() settles; res.json(health).
HealthMongoSettled(r, outcome) ==
    /\ Running
    /\ r.pc = "health_mongo"
    /\ outcome \in MongoReply
    /\ inflight' = Replace(r, HealthDone(r, r.health, outcome))
    /\ UNCHANGED <<exitCode, envVars, storeVars, startVars, nArrived,
                   metricVars, overlapped, mongoOverlapped, shutVars, run,
                   scopeVars>>

\* ------------------------------------------------------------------------
\* The finish event of a response (lines 42-45)
\* ------------------------------------------------------------------------

\* httpRequestCount.inc(labels); end(labels)
Finish(r) ==
    /\ Running
    /\ r.pc = "responded"
    /\ httpRequestCount' = FinishCount(r)
    /\ httpRequestDuration' = FinishDuration(r)
    /\ finished' = finished (+) SetToBag({Sent(r)})
    /\ inflight' = Remove(r)
    /\ UNCHANGED <<exitCode, envVars, storeVars, startVars, nArrived,
                   overlapped, metricsThrown, mongoOverlapped, shutVars, run,
                   scopeVars>>

\* A metrics call raises an error in the callback: nothing catches it, the
\* listener throws out of emit('finish') and the uncaught exception ends
\* the process with code 1.  `at` is the call that raised.
FinishThrows(r, at) ==
    /\ Running
    /\ r.pc = "responded"
    /\ httpRequestCount' = IF at = "end" THEN FinishCount(r) ELSE httpRequestCount
    /\ metricsThrown' = TRUE
    /\ exitCode' = "1"
    /\ UNCHANGED <<envVars, storeVars, startVars, inflight, nArrived,
                   httpRequestDuration, finished, overlapped, mongoOverlapped,
                   shutVars, run, scopeVars>>

\* The client of a request whose handler waits for a dependency call closes
\* the connection.  No handler listens for 'close' or 'aborted' on req or
\* res and no call is given an abort signal: nothing but the socket changes.
ClientDisconnects(r) ==
    /\ Running
    /\ r.pc \in CacheWaits \cup StoreWaits
    /\ ~r.gone
    /\ inflight' = Replace(r, [r EXCEPT !.gone = TRUE])
    /\ UNCHANGED <<exitCode, envVars, storeVars, startVars, nArrived,
                   metricVars, overlapped, mongoOverlapped, shutVars, run,
                   scopeVars>>

\* The response of a request whose client has gone is written to a closed
\* socket: 'finish' may never be emitted for it, and then the callback of
\* res.on('finish') (lines 42-45) is not run.
FinishNotEmitted(r) ==
    /\ Running
    /\ r.pc = "responded"
    /\ r.gone
    /\ inflight' = Remove(r)
    /\ UNCHANGED <<exitCode, envVars, storeVars, startVars, nArrived,
                   metricVars, overlapped, mongoOverlapped, shutVars, run,
                   scopeVars>>

\* ------------------------------------------------------------------------
\* The SIGTERM handler (lines 171-195)
\* ------------------------------------------------------------------------

\* The signal is delivered: server.close() stops the listener, its callback
\* is not awaited, and redisClient.quit() is called and awaited.  Every
\* delivery runs the handler again.
Sigterm ==
    /\ Running
    /\ nSignals < MaxSignals
    /\ nSignals' = nSignals + 1
    /\ listening' = FALSE
    /\ closeCalls' = [closeCalls EXCEPT !.redis = @ + 1]
    /\ sigterm' = sigterm (+) SetToBag({"redis_quit"})
    /\ UNCHANGED <<exitCode, envVars, storeVars, startVars, inflight,
                   nArrived, metricVars, overlapped, mongoOverlapped, run,
                   scopeVars>>

\* Mutant: a rejected redisClient.quit() ends the handler.
RedisQuitSettled_Aborts(outcome) ==
    /\ Running
    /\ BagIn("redis_quit", sigterm)
    /\ outcome \in RedisReply
    /\ redisClient' = IF outcome = "ok" THEN "closed" ELSE redisClient
    /\ IF outcome # "ok"
       THEN /\ closeCalls' = closeCalls
            /\ sigterm' = sigterm (-) SetToBag({"redis_quit"})
            /\ exitCode' = exitCode
       ELSE IF mongoClient
       THEN /\ closeCalls' = [closeCalls EXCEPT !.mongo = @ + 1]
            /\ sigterm' = (sigterm (-) SetToBag({"redis_quit"}))
                             (+) SetToBag({"mongo_close"})
            /\ exitCode' = exitCode
       ELSE /\ closeCalls' = closeCalls
            /\ sigterm' = sigterm (-) SetToBag({"redis_quit"})
            /\ exitCode' = "0"
    /\ UNCHANGED <<envVars, storeVars, startPc, mongoClient, db, inflight,
                   nArrived, metricVars, overlapped, mongoOverlapped,
                   listening, nSignals, run, scopeVars>>

\* redisClient.quit() settles, a rejection is logged; then, if mongoClient
\* is set, mongoClient.close() is called and awaited, else process.exit(0).
RedisQuitSettled(outcome) ==
    /\ Running
    /\ BagIn("redis_quit", sigterm)
    /\ outcome \in RedisReply
    /\ redisClient' = IF outcome = "ok" THEN "closed" ELSE redisClient
    /\ IF mongoClient
       THEN /\ closeCalls' = [closeCalls EXCEPT !.mongo = @ + 1]
            /\ sigterm' = (sigterm (-) SetToBag({"redis_quit"}))
                             (+) SetToBag({"mongo_close"})
            /\ exitCode' = exitCode
       ELSE /\ closeCalls' = closeCalls
            /\ sigterm' = sigterm (-) SetToBag({"redis_quit"})
            /\ exitCode' = "0"
    /\ UNCHANGED <<envVars, storeVars, startPc, mongoClient, db, inflight,
                   nArrived, metricVars, overlapped, mongoOverlapped,
                   listening, nSignals, run, scopeVars>>

\* mongoClient.close() settles, a rejection is logged; process.exit(0).
MongoCloseSettled(outcome) ==
    /\ Running
    /\ BagIn("mongo_close", sigterm)
    /\ outcome \in MongoReply
    /\ sigterm' = sigterm (-) SetToBag({"mongo_close"})
    /\ exitCode' = "0"
    /\ UNCHANGED <<envVars, storeVars, startVars, inflight, nArrived,
                   metricVars, overlapped, mongoOverlapped, listening,
                   nSignals, closeCalls, run, scopeVars>>

\* ------------------------------------------------------------------------
\* The CI pipeline (src/Jenkinsfile): one action per stage.  A stage whose
\* when condition is false is skipped; a stage that fails or is aborted
\* ends the run, the stages after it are not run.
\* ------------------------------------------------------------------------

Branches == {"main", "feature"}

\* The environment a stage approves or deploys to, "none" for the others.
StageEnvironment(i) ==
    IF \E e \in Environments : i = DeployStage(e)
    THEN CHOOSE e \in Environments : i = DeployStage(e)
    ELSE IF \E e \in GatedEnvironments : i = ApprovalStage(e)
    THEN CHOOSE e \in GatedEnvironments : i = ApprovalStage(e)
    ELSE "none"

\* Mutant: the approval and deploy stages of every environment are run,
\* whatever TARGET_ENVIRONMENT is.
When_EveryEnvironment(i) ==
    IF i \in {StageNo("Build & Test"), StageNo("Push to Registry")}
    THEN run.skipBuild = "false"
    ELSE IF StageEnvironment(i) # "none"
    THEN run.branch = "main"
    ELSE TRUE

\* Mutant: the Deploy to Dev stage is never run.
When_NoDevDeploy(i) ==
    IF i \in {StageNo("Build & Test"), StageNo("Push to Registry")}
    THEN run.skipBuild = "false"
    ELSE IF StageEnvironment(i) # "none"
    THEN /\ run.target = StageEnvironment(i)
         /\ run.branch = "main"
         /\ i # DeployStage("dev")
    ELSE TRUE

\* The when condition of stage i.
When(i) ==
    IF i \in {StageNo("Build & Test"), StageNo("Push to Registry")}
    THEN run.skipBuild = "false"
    ELSE IF StageEnvironment(i) # "none"
    THEN run.target = StageEnvironment(i) /\ run.branch = "main"
    ELSE TRUE

\* Stage i is the one to run now.
AtStage(i) ==
    /\ run.result = "running"
    /\ run.stage = i
    /\ When(i)

\* The run after its current stage has succeeded.
Advance(r) ==
    IF r.stage = Len(Stages)
    THEN [r EXCEPT !.stage = Finished, !.result = "SUCCESS"]
    ELSE [r EXCEPT !.stage = @ + 1]

\* The run after its current stage has failed or has been aborted.
EndRun(r, result) == [r EXCEPT !.stage = Finished, !.result = result]

\* Mutant: latest is tagged and pushed for every environment.
Tags_LatestAlways(target) == {"build", "latest"}

\* The tags the image gets: the build tag, and latest for dev (lines
\* 121-127, 177-182).
Tags(target) == IF target = "dev" THEN {"build", "latest"} ELSE {"build"}

\* The tags already handled when a step of the stage fails: none, or the
\* build tag when it is the step for latest that fails.
TagsBeforeFailure(target) ==
    IF target = "dev" THEN {{}, {"build"}} ELSE {{}}

\* The when condition of the current stage is false.
SkipStage ==
    /\ run.result = "running"
    /\ run.stage <= Len(Stages)
    /\ ~When(run.stage)
    /\ run' = Advance(run)
    /\ UNCHANGED serviceVars

\* stage('Checkout & Initialize') (lines 44-79)
CheckoutInitialize(ok) ==
    /\ AtStage(StageNo("Checkout & Initialize"))
    /\ run' = IF ok THEN Advance(run) ELSE EndRun(run, "FAILURE")
    /\ UNCHANGED serviceVars

\* Mutant: FORCE_REBUILD is not looked at.
SkipBuild_ForceIgnored(imageExists, forceRebuild) ==
    IF imageExists THEN "true" ELSE "false"

\* SKIP_BUILD as lines 99-105 set it.
SkipBuild(imageExists, forceRebuild) ==
    IF imageExists /\ ~forceRebuild THEN "true" ELSE "false"

\* stage('Build Preparation') (lines 81-108): docker manifest inspect finds
\* the image only if the registry holds it, and may fail to find it.
BuildPreparation(imageExists) ==
    /\ AtStage(StageNo("Build Preparation"))
    /\ imageExists => run.inRegistry
    /\ run' = Advance([run EXCEPT
                          !.imageExists = imageExists,
                          !.skipBuild = SkipBuild(imageExists, run.forceRebuild)])
    /\ UNCHANGED serviceVars

\* stage('Build Docker Image') (lines 115-138), a branch of the parallel
\* block.
BuildDockerImage(ok) ==
    /\ AtStage(StageNo("Build & Test"))
    /\ run.build = "todo"
    /\ IF ok
       THEN run' = [run EXCEPT !.build = "done", !.built = Tags(run.target)]
       ELSE \E some \in TagsBeforeFailure(run.target) :
               run' = [run EXCEPT !.build = "failed", !.built = some]
    /\ UNCHANGED serviceVars

\* stage('Run Tests') (lines 140-157), the other branch: skipped when
\* SKIP_TESTS is set, else it only echoes.
RunTests ==
    /\ AtStage(StageNo("Build & Test"))
    /\ run.tests = "todo"
    /\ run' = [run EXCEPT !.tests = IF run.skipTests THEN "skipped" ELSE "done"]
    /\ UNCHANGED serviceVars

\* Both branches of stage('Build & Test') are over.
BuildAndTestDone ==
    /\ AtStage(StageNo("Build & Test"))
    /\ run.build # "todo"
    /\ run.tests # "todo"
    /\ run' = IF run.build = "done" THEN Advance(run) ELSE EndRun(run, "FAILURE")
    /\ UNCHANGED serviceVars

\* stage('Push to Registry') (lines 161-188)
PushToRegistry(ok) ==
    /\ AtStage(StageNo("Push to Registry"))
    /\ IF ok
       THEN run' = Advance([run EXCEPT !.pushed = Tags(run.target)])
       ELSE \E some \in TagsBeforeFailure(run.target) :
               run' = EndRun([run EXCEPT !.pushed = some], "FAILURE")
    /\ UNCHANGED serviceVars

\* stage('Deploy to Dev' / 'Deploy to QA' / 'Deploy to Staging' /
\* 'Deploy to Production'): deployToEnvironment(e, ...) (lines 417-439).
DeployTo(e, ok) ==
    /\ AtStage(DeployStage(e))
    /\ run' = IF ok
              THEN Advance([run EXCEPT !.deployed = @ \cup {e}])
              ELSE EndRun(run, "FAILURE")
    /\ UNCHANGED serviceVars

\* stage('QA Approval' / 'Staging Approval' / 'Production Approval') up to
\* its input step (for qa after the echoed CI tests): the run waits for the
\* answer.
ApprovalAsked(e) ==
    /\ AtStage(ApprovalStage(e))
    /\ ~run.waiting
    /\ run' = [run EXCEPT !.waiting = TRUE]
    /\ UNCHANGED serviceVars

\* Mutant: an aborted input lets the run go on.
AfterInput_AbortIgnored(r, e, answer) ==
    IF answer = "proceed"
    THEN Advance([r EXCEPT !.waiting = FALSE, !.approved = @ \cup {e}])
    ELSE Advance([r EXCEPT !.waiting = FALSE, !.refused = @ \cup {e}])

\* The run after the input step of e's approval stage has been answered:
\* "proceed" completes the stage, "abort" throws and aborts the run.
AfterInput(r, e, answer) ==
    IF answer = "proceed"
    THEN Advance([r EXCEPT !.waiting = FALSE, !.approved = @ \cup {e}])
    ELSE EndRun([r EXCEPT !.waiting = FALSE, !.refused = @ \cup {e}],
                "ABORTED")

\* The input step is answered.
InputAnswered(e, answer) ==
    /\ AtStage(ApprovalStage(e))
    /\ run.waiting
    /\ run' = AfterInput(run, e, answer)
    /\ UNCHANGED serviceVars

\* options { timeout(time: 30, unit: 'MINUTES') } (line 34): the run is
\* aborted wherever it is; an input it waits for is thereby not given.
Timeout ==
    /\ run.result = "running"
    /\ run' = IF run.waiting
              THEN AfterInput(run, StageEnvironment(run.stage), "abort")
              ELSE EndRun(run, "ABORTED")
    /\ UNCHANGED serviceVars

\* ------------------------------------------------------------------------
\* Specifications
\* ------------------------------------------------------------------------

Environment ==
    \/ \E s \in Answering : RedisServerChanges(s)
    \/ \E s \in Answering : MongoServerChanges(s)

\* A server stops answering.
Hangs ==
    \/ RedisServerChanges("hung")
    \/ MongoServerChanges("hung")

Arrival ==
    \E in \in RequestInputs :
        \/ NotFound(in)
        \/ GetRoot(in)
        \/ GetCrash(in)
        \/ GetMetrics(in)
        \/ GetRedisTest(in)
        \/ GetMongoTest(in)
        \/ GetHealth(in)

Outcomes == {"ok", "fail"}

Continuation ==
    \/ \E r \in Requests : MetricsRendered(r)
    \/ \E r \in Requests, o \in Outcomes : RedisGetSettled(r, o)
    \/ \E r \in Requests, o \in Outcomes : RedisSetSettled(r, o)
    \/ \E r \in Requests, o \in Outcomes : MongoInsertSettled(r, o)
    \/ \E r \in Requests, o \in Outcomes : MongoCountSettled(r, o)
    \/ \E r \in Requests, o \in Outcomes : HealthRedisSettled(r, o)
    \/ \E r \in Requests, o \in Outcomes : HealthMongoSettled(r, o)


Next ==
    \/ Environment
    \/ connectDatabases
    \/ Arrival
    \/ Continuation
    \/ \E r \in Requests : Finish(r)

\* The service with a metrics library that keeps its contract: inc and the
\* timer's end accept the three declared label names and do not throw.  A
\* call that is never answered differs from one whose answer has not come
\* yet only in what happens eventually, so the servers of this
\* specification are up or down; NextHung adds the server that hangs.
Spec == Init /\ [][Next]_vars

\* The same service, the requests keeping the history of their arrival.
SpecTraced == InitTraced /\ [][Next]_vars

\* The service when a server may stop answering.
NextHung == Next \/ Hangs

SpecHung == Init /\ [][NextHung]_vars

\* The service when a metrics call may raise an error.
NextFault == Next \/ \E r \in Requests : \E at \in {"inc", "end"} : FinishThrows(r, at)

SpecFault == Init /\ [][NextFault]_vars

\* The service when a client may close its connection before the response.
Disconnect ==
    \/ \E r \in Requests : ClientDisconnects(r)
    \/ \E r \in Requests : FinishNotEmitted(r)

NextDisconnect == Next \/ Disconnect

SpecDisconnect == InitDisconnect /\ [][NextDisconnect]_vars

Shutdown ==
    \/ Sigterm
    \/ \E o \in Outcomes : RedisQuitSettled(o)
    \/ \E o \in Outcomes : MongoCloseSettled(o)

\* The service when the termination signal may be delivered.
NextShutdown == Next \/ Shutdown

SpecShutdown == InitShutdown /\ [][NextShutdown]_vars

\* The steps of the SIGTERM handler after its awaits.
ShutdownSettles ==
    \/ \E o \in Outcomes : RedisQuitSettled(o)
    \/ \E o \in Outcomes : MongoCloseSettled(o)

\* The same under the event loop's scheduling: a close whose server has
\* answered or refused settles and the handler is resumed, and the startup
\* task is resumed when its connect settles.  Both servers answer or
\* refuse in this specification, none leaves a call pending for ever.
FairShutdown ==
    /\ SpecShutdown
    /\ SF_vars(ShutdownSettles)
    /\ SF_vars(connectDatabases)

\* The runs of the pipeline: any parameters, either branch, the image in
\* the registry or not.  The service is not part of a run.
InitPipeline ==
    /\ InitService
    /\ traced = FALSE
    /\ quota = MaxRequests
    /\ redisServer = "up"
    /\ mongoServer = "up"
    /\ \E t \in Environments, b \in Branches :
          \E f \in BOOLEAN, k \in BOOLEAN, i \in BOOLEAN :
              run = NewRun(t, f, k, b, i)

NextPipeline ==
    \/ SkipStage
    \/ \E ok \in BOOLEAN : CheckoutInitialize(ok)
    \/ \E imageExists \in BOOLEAN : BuildPreparation(imageExists)
    \/ \E ok \in BOOLEAN : BuildDockerImage(ok)
    \/ RunTests
    \/ BuildAndTestDone
    \/ \E ok \in BOOLEAN : PushToRegistry(ok)
    \/ \E e \in Environments, ok \in BOOLEAN : DeployTo(e, ok)
    \/ \E e \in GatedEnvironments : ApprovalAsked(e)
    \/ \E e \in GatedEnvironments, a \in {"proceed", "abort"} : InputAnswered(e, a)
    \/ Timeout

SpecPipeline == InitPipeline /\ [][NextPipeline]_vars

\* The event loop runs every callback whose event has arrived: a finish
\* callback, and a continuation or a step of connectDatabases whose awaited
\* call can settle, even if the server it waits for is only up or down again
\* and again.  Nothing obliges the environment to answer or to change.
FairSpec ==
    /\ SpecHung
    /\ SF_vars(Continuation)
    /\ SF_vars(connectDatabases)
    /\ WF_vars(\E r \in Requests : Finish(r))

\* ------------------------------------------------------------------------
\* Definitions the properties are stated with
\* ------------------------------------------------------------------------

RECURSIVE SumOver(_, _)
\* The sum of f over the set S of its arguments.
SumOver(f, S) ==
    IF S = {} THEN 0
    ELSE LET x == CHOOSE y \in S : TRUE
         IN  f[x] + SumOver(f, S \ {x})

\* The sum of all the values a metric holds.
MetricSum(metric) == SumOver(metric, DOMAIN metric)

\* The value a metric holds for a method and a status code, over all routes.
MetricFor(metric, method, code) ==
    SumOver(metric, {l \in DOMAIN metric :
                        l.method = method /\ l.status_code = code})

\* The number of finished responses of a method and a status code.
FinishedFor(method, code) ==
    SumOver(finished, {e \in DOMAIN finished :
                          e.method = method /\ e.status = code})

Responded == {r \in Requests : r.pc = "responded"}

HealthResponded == {r \in Responded : Route(r) = "/health"}

\* A /health request whose handler waits for a probe.
HealthWaiting ==
    \E r \in Requests : r.pc \in {"health_redis", "health_mongo"}

\* The /redis-test requests that have finished with 200.
RedisTestDone ==
    SumOver(finished, {e \in DOMAIN finished :
                          Route(e) = "/redis-test" /\ e.status = 200})

\* A /redis-test request has been answered with an error.
RedisTestFailed ==
    \/ \E e \in DOMAIN finished : Route(e) = "/redis-test" /\ e.status # 200
    \/ \E r \in Responded : Route(r) = "/redis-test" /\ r.res.status # 200

\* The successful /redis-test responses so far: finished, or sent and not
\* finished yet.
RedisTestSucceeded ==
    RedisTestDone
    + SumOver(inflight, {r \in Responded :
                           Route(r) = "/redis-test" /\ r.res.status = 200})

\* The count the cache holds, as the handler reads it.
StoredCount == parseInt(OrZero(redisStore))

\* The /mongo-test requests that have finished with 200.
MongoTestDone ==
    SumOver(finished, {e \in DOMAIN finished :
                          Route(e) = "/mongo-test" /\ e.status = 200})

\* A /mongo-test request has been answered with an error.
MongoTestFailed ==
    \/ \E e \in DOMAIN finished : Route(e) = "/mongo-test" /\ e.status # 200
    \/ \E r \in Responded : Route(r) = "/mongo-test" /\ r.res.status # 200

\* The responses of the two dependency test routes.
TestResponded == {r \in Responded : Route(r) \in {"/redis-test", "/mongo-test"}}

\* A dependency call of the request failed, or was not possible.
CallFailed(r) ==
    r.probes.redis = "fail" \/ r.probes.mongo \in {"fail", "throw"}

\* The process has ended because /crash was requested.
CrashRequested ==
    /\ exitCode = "1"
    /\ \E r \in Responded : Route(r) = "/crash"

\* The /metrics responses.
MetricsResponded == {r \in Responded : Route(r) = "/metrics"}

StatusCodes == {200, 404, 500}

Methods == {in.method : in \in RequestInputs}

\* ------------------------------------------------------------------------
\* C1.  Every response that finishes is counted once and observed once,
\* under one label set: the counter and the histogram hold the same samples,
\* per method and status code the counter holds the number of finished
\* responses, and so the counter values add up to the number of finished
\* responses.
\* ------------------------------------------------------------------------
C1_OneIncrementOneObservation ==
    /\ httpRequestCount = httpRequestDuration
    /\ MetricSum(httpRequestCount) = BagCardinality(finished)
    /\ \A m \in Methods, c \in StatusCodes :
          MetricFor(httpRequestCount, m, c) = FinishedFor(m, c)

\* Three responses have finished, under at least two label sets.
C1_Witness ==
    /\ BagCardinality(finished) = 3
    /\ Cardinality(DOMAIN httpRequestCount) >= 2
    /\ \E l \in DOMAIN httpRequestDuration : httpRequestDuration[l] = 2

\* ------------------------------------------------------------------------
\* C2.  The instrumentation fires whatever the outcome: a request no route
\* matches is answered 404, a handler whose catch block ran answers 500,
\* any other 200, and per status code the counter and the histogram hold
\* the number of responses that finished with that status code.
\* ------------------------------------------------------------------------
C2_RecordedWhateverTheOutcome ==
    /\ \A r \in Responded :
          /\ r.outcome = "ok" => r.res.status = 200
          /\ r.outcome = "notfound" => r.res.status = 404
          /\ r.outcome = "error" => r.res.status = 500
    /\ \A c \in StatusCodes :
          LET sent == SumOver(finished, {e \in DOMAIN finished : e.status = c})
          IN  /\ SumOver(httpRequestCount,
                         {l \in DOMAIN httpRequestCount : l.status_code = c}) = sent
              /\ SumOver(httpRequestDuration,
                         {l \in DOMAIN httpRequestDuration : l.status_code = c}) = sent
    /\ \A e \in DOMAIN finished :
          /\ e.outcome = "ok" => e.status = 200
          /\ e.outcome = "notfound" => e.status = 404
          /\ e.outcome = "error" => e.status = 500

\* A success, a 404 and a 500 of the /redis-test catch block have finished
\* and each has its sample.
C2_Witness ==
    /\ \E l \in DOMAIN httpRequestCount :
          l.status_code = 500 /\ l.route = "/redis-test"
    /\ \E l \in DOMAIN httpRequestCount : l.status_code = 404
    /\ \E l \in DOMAIN httpRequestCount : l.status_code = 200
    /\ \E e \in DOMAIN finished : e.outcome = "error" /\ e.path = "/redis-test"

\* ------------------------------------------------------------------------
\* C3.  The route label is a registered route pattern: the route labels of
\* the samples stay within the set of registered routes.
\* ------------------------------------------------------------------------
C3_RouteLabelsAreRegisteredRoutes ==
    \A l \in DOMAIN httpRequestCount \cup DOMAIN httpRequestDuration :
        l.route \in RegisteredRoutes

\* ------------------------------------------------------------------------
\* C4.  An error raised by a metrics call in the finish callback is
\* swallowed: the process keeps running.
\* ------------------------------------------------------------------------
C4_MetricsErrorIsSwallowed == metricsThrown => Running

\* ------------------------------------------------------------------------
\* C5.  Every /health response has status 200, in every state of the
\* dependencies and of the startup routine.
\* ------------------------------------------------------------------------
C5_HealthAlways200 ==
    /\ \A r \in HealthResponded : r.res.status = 200
    /\ \A e \in DOMAIN finished : Route(e) = "/health" => e.status = 200

\* A /health response sent while the startup routine has not got past the
\* cache connection (mongoClient is undefined) and both probes failed.
C5_Witness ==
    \E r \in HealthResponded :
        /\ ~mongoClient
        /\ startPc \in {"redis_connect", "failed"}
        /\ r.res.body.redis = "disconnected"
        /\ r.res.body.mongodb = "disconnected"

\* ------------------------------------------------------------------------
\* C6.  Every /health response holds both entries, each connected or
\* disconnected, and its status is DEGRADED exactly when an entry is
\* disconnected, OK otherwise.
\* ------------------------------------------------------------------------
C6_HealthReportShape ==
    \A r \in HealthResponded :
        LET b == r.res.body
        IN  /\ b.redis \in {"connected", "disconnected"}
            /\ b.mongodb \in {"connected", "disconnected"}
            /\ b.status \in {"OK", "DEGRADED"}
            /\ b.status = "DEGRADED" <=>
                 (b.redis = "disconnected" \/ b.mongodb = "disconnected")

\* A report with the cache connected and the store disconnected.
C6_Witness ==
    \E r \in HealthResponded :
        /\ r.res.body.redis = "connected"
        /\ r.res.body.mongodb = "disconnected"
        /\ r.res.body.status = "DEGRADED"

\* ------------------------------------------------------------------------
\* C7.  The probes are independent: in every /health request the store's
\* ping is issued, and a store that is reachable when the second probe runs
\* is reported connected, also when the cache probe failed.
\* ------------------------------------------------------------------------
C7_StoreProbedWhateverTheCache ==
    \A r \in HealthResponded :
        /\ r.probes.mongo \in {"ok", "fail"}
        /\ (r.probes.redis = "fail" /\ r.probes.storeUp) =>
               r.res.body.mongodb = "connected"

\* ------------------------------------------------------------------------
\* C8.  The status and the entries of a /health response are determined by
\* the outcomes of the two probes of that request: the cache entry by the
\* cache ping, the store entry by the second probe, the status by both; so
\* two responses with the same outcomes are the same.
\* ------------------------------------------------------------------------
C8_HealthFromOwnProbesOnly ==
    /\ \A r \in HealthResponded :
          /\ r.res.body.redis = "connected" <=> r.probes.redis = "ok"
          /\ r.res.body.mongodb = "connected" <=> r.probes.mongo = "ok"
          /\ r.res.body.status = "OK" <=>
                 (r.probes.redis = "ok" /\ r.probes.mongo = "ok")
    /\ \A r1, r2 \in HealthResponded :
          (r1.probes.redis = r2.probes.redis /\ r1.probes.mongo = r2.probes.mongo)
              => r1.res.body = r2.res.body

\* After a /health request that reported DEGRADED has finished, a later
\* one whose probes both succeed reports OK.
C8_Witness ==
    /\ \E r \in HealthResponded :
          /\ r.probes.redis = "ok"
          /\ r.probes.mongo = "ok"
          /\ r.res.body.status = "OK"
    /\ \E r \in HealthResponded : r.res.body.status = "DEGRADED"
    /\ \E e \in DOMAIN finished : Route(e) = "/health"

\* ------------------------------------------------------------------------
\* C9.  Every /health request gets a response, also when a probe is never
\* answered (unless the process has exited).
\* ------------------------------------------------------------------------
C9_HealthEventuallyResponds == HealthWaiting ~> (~HealthWaiting \/ ~Running)

\* ------------------------------------------------------------------------
\* C10.  /redis-test called one request after the other, from a state with
\* no visit_count key, every call succeeding: the k-th call answers
\* visit_count = k, and between calls the stored value is the number of
\* calls made.
\* ------------------------------------------------------------------------
C10_SequentialVisitCounts ==
    (~overlapped /\ ~RedisTestFailed) =>
        /\ \A r \in Responded :
              Route(r) = "/redis-test" =>
                  /\ r.res.body.visit_count = RedisTestDone + 1
                  /\ redisStore = JsStr(RedisTestDone + 1)
        /\ (~\E r \in Requests : Route(r) = "/redis-test") =>
              redisStore = IF RedisTestDone = 0 THEN JsNull
                           ELSE JsStr(RedisTestDone)

\* The third of three sequential calls has answered 3.
C10_Witness ==
    /\ ~overlapped
    /\ ~RedisTestFailed
    /\ RedisTestDone = 2
    /\ \E r \in Responded :
          Route(r) = "/redis-test" /\ r.res.body.visit_count = 3

\* ------------------------------------------------------------------------
\* C11.  The increment of /redis-test is a read followed by a write of the
\* count computed from that read, not an atomic increment: a successful
\* response carries the count computed at the request's own read, whatever
\* has been written since, so updates can be lost but never invented (the
\* stored count and every returned count are at most the number of
\* successful calls).  The lost update itself is the witness.
\* ------------------------------------------------------------------------
C11_WriteOfAnEarlierRead ==
    /\ StoredCount <= RedisTestSucceeded
    /\ \A r \in Responded :
          (Route(r) = "/redis-test" /\ r.res.status = 200) =>
              /\ r.res.body.visit_count = r.newCount
              /\ r.res.body.visit_count \in 1..RedisTestSucceeded

\* The lost update: from an empty key two overlapping requests have both
\* succeeded, both answered visit_count = 1, and the stored value has grown
\* by one, not by two.
C11_Witness ==
    /\ finished = EmptyBag
    /\ redisStore = JsStr(1)
    /\ \E r \in Responded :
          /\ Route(r) = "/redis-test"
          /\ r.res.status = 200
          /\ r.res.body.visit_count = 1
          /\ CopiesIn(r, inflight) = 2

\* ------------------------------------------------------------------------
\* C12.  A successful /mongo-test call inserts one document and then returns
\* the number of documents the collection holds.  Called one request after
\* the other, with no other writer and no failure, the k-th call returns
\* the initial number of documents plus k and the collection holds as many;
\* under any interleaving the total returned is at least one more than the
\* initial size and at most the current size.
\* ------------------------------------------------------------------------
C12_OneInsertThenTheCount ==
    /\ \A r \in Responded :
          (Route(r) = "/mongo-test" /\ r.res.status = 200) =>
              r.res.body.total_visits \in (InitialVisits + 1)..visits
    /\ (~mongoOverlapped /\ ~MongoTestFailed) =>
          /\ \A r \in Requests :
                (Route(r) = "/mongo-test" /\ r.pc \in {"mongo_count", "responded"}) =>
                    visits = InitialVisits + MongoTestDone + 1
          /\ \A r \in Responded :
                Route(r) = "/mongo-test" =>
                    r.res.body.total_visits = InitialVisits + MongoTestDone + 1
          /\ (~\E r \in Requests : Route(r) = "/mongo-test") =>
                visits = InitialVisits + MongoTestDone

\* The third of three sequential calls has answered with three documents
\* more than the collection started with.
C12_Witness ==
    /\ ~mongoOverlapped
    /\ ~MongoTestFailed
    /\ MongoTestDone = 2
    /\ \E r \in Responded :
          /\ Route(r) = "/mongo-test"
          /\ r.res.body.total_visits = InitialVisits + 3
          /\ visits = InitialVisits + 3

\* ------------------------------------------------------------------------
\* C13.  While the cache is unreachable, a /redis-test request whose cache
\* call settles is answered 500 with an error field, and a /health request
\* whose cache probe settles is still answered 200, with the cache entry
\* "disconnected".
\* ------------------------------------------------------------------------
C13_CacheUnreachable ==
    \A r \in Responded :
        (r.probes.redis # "none" /\ ~r.probes.cacheUp) =>
            /\ Route(r) = "/redis-test" =>
                  /\ r.res.status = 500
                  /\ "error" \in DOMAIN r.res.body
            /\ Route(r) = "/health" =>
                  /\ r.res.status = 200
                  /\ r.res.body.redis = "disconnected"

\* With the cache down, a /redis-test request has been answered 500 and a
\* /health request 200 with the cache entry disconnected.
C13_Witness ==
    /\ redisServer = "down"
    /\ \E r \in Responded :
          /\ Route(r) = "/redis-test"
          /\ ~r.probes.cacheUp
          /\ r.res.status = 500
          /\ "error" \in DOMAIN r.res.body
    /\ \E r \in Responded :
          /\ Route(r) = "/health"
          /\ ~r.probes.cacheUp
          /\ r.res.status = 200
          /\ r.res.body.redis = "disconnected"

\* ------------------------------------------------------------------------
\* C14.  A dependency operation that fails inside /redis-test or
\* /mongo-test (the read, the write, the insert, the count, or the use of a
\* handle that is still undefined) is caught: the request is answered 500
\* with a body of an error and its details, a request none of whose
\* operations failed is answered 200, and the process ends only when /crash
\* is requested.
\* ------------------------------------------------------------------------
C14_FailuresAreCaught ==
    /\ \A r \in TestResponded :
          IF CallFailed(r)
          THEN /\ r.res.status = 500
               /\ {"error", "details"} \subseteq DOMAIN r.res.body
          ELSE r.res.status = 200
    /\ Running \/ CrashRequested

\* After a failed count has been answered 500 and has finished, a later
\* request is answered 200 by the running process.
C14_Witness ==
    /\ Running
    /\ \E e \in DOMAIN finished : Route(e) = "/mongo-test" /\ e.status = 500
    /\ visits > InitialVisits
    /\ \E r \in TestResponded : r.res.status = 200

\* ------------------------------------------------------------------------
\* C15.  The listener is started without waiting for the dependency
\* connections: wherever connectDatabases is (a connection pending, both
\* made, or one failed) the server listens and a request can arrive
\* whenever the run has room for one, and the process keeps running (it
\* ends only when /crash is requested).
\* ------------------------------------------------------------------------
C15_ListensWhateverTheConnections ==
    /\ listening
    /\ Running \/ CrashRequested
    /\ (/\ Running
        /\ nArrived < MaxRequests
        /\ BagCardinality(inflight) < MaxInflight) => ENABLED Arrival

\* The cache connection has failed, a response has finished since and the
\* next request can arrive.
C15_Witness ==
    /\ startPc = "failed"
    /\ Running
    /\ listening
    /\ finished # EmptyBag
    /\ ENABLED Arrival

\* ------------------------------------------------------------------------
\* C16.  On SIGTERM the in-flight requests drain before anything is closed:
\* while a request is still being handled the listener has only stopped
\* accepting; no quit() or close() has been called on a dependency handle
\* and the process has not exited with code 0.
\* ------------------------------------------------------------------------
C16_DrainBeforeClose ==
    (\E r \in Requests : r.pc # "responded") =>
        /\ closeCalls.redis = 0
        /\ closeCalls.mongo = 0
        /\ exitCode # "0"

\* ------------------------------------------------------------------------
\* C17.  Over any run, several deliveries of the termination signal
\* included, the close operation of each dependency handle is invoked at
\* most once, and once the process has exited with code 0 the cache handle's
\* has been invoked exactly once, and the store handle's too if it was
\* created.
\* ------------------------------------------------------------------------
C17_ClosedExactlyOnce ==
    /\ closeCalls.redis <= 1
    /\ closeCalls.mongo <= 1
    /\ exitCode = "0" =>
          /\ closeCalls.redis = 1
          /\ mongoClient => closeCalls.mongo = 1

\* ------------------------------------------------------------------------
\* C18.  For every /crash request the response has been delivered to the
\* client when the process terminates, and the exit code is 1.
\* ------------------------------------------------------------------------
C18_CrashResponseDelivered ==
    \A r \in Responded :
        Route(r) = "/crash" =>
            /\ exitCode = "1"
            /\ r.flushed

\* ------------------------------------------------------------------------
\* C19 as stated.  Every /metrics response has status 200 and holds at
\* least one sample of http_request_count_total, the response to the first
\* request the process serves included.
\* ------------------------------------------------------------------------
C19_AlwaysASample ==
    \A r \in MetricsResponded :
        /\ r.res.status = 200
        /\ r.res.body.count_samples >= 1

\* ------------------------------------------------------------------------
\* C19, amended.  Every /metrics response has status 200, and it holds at
\* least one sample of http_request_count_total exactly when a response had
\* finished before the registry was read: the counter is incremented only
\* in finish callbacks, so the first response the process gives holds none.
\* ------------------------------------------------------------------------
C19_SampleOnceAResponseFinished ==
    \A r \in MetricsResponded :
        /\ r.res.status = 200
        /\ r.res.body.count_samples >= 1 <=> r.finishedBefore >= 1

\* A /metrics response rendered after two responses had finished, with a
\* sample.
C19_Witness ==
    \E r \in MetricsResponded :
        /\ r.finishedBefore = 2
        /\ r.res.body.count_samples >= 1

\* ------------------------------------------------------------------------
\* C20.  In a pipeline run a deployment to qa, staging or prod happens only
\* after the approval input for that environment has been answered
\* "proceed" in the same run: such an environment is deployed to, or its
\* Deploy stage is about to run, only if it has been approved, and an
\* environment whose approval was not given is not deployed to.
\* ------------------------------------------------------------------------
C20_DeployOnlyAfterApproval ==
    \A e \in GatedEnvironments :
        /\ e \in run.deployed => e \in run.approved
        /\ AtStage(DeployStage(e)) => e \in run.approved
        /\ e \in run.refused =>
              /\ e \notin run.deployed
              /\ run.result = "ABORTED"

\* A run has deployed to prod, after the approval.
C20_Witness ==
    /\ run.result = "SUCCESS"
    /\ "prod" \in run.deployed
    /\ "prod" \in run.approved

\* ------------------------------------------------------------------------
\* C21.  Build once: once Build Preparation has run, the build and the push
\* are skipped exactly when the existence check found an image with the
\* run's tag and FORCE_REBUILD is false.  A skipped run builds and pushes
\* nothing; in every other case (no image, a check that fails to find it,
\* FORCE_REBUILD) the Build and Push stages run, and a run that succeeds
\* has built and pushed the image.
\* ------------------------------------------------------------------------
C21_BuildOnce ==
    /\ run.skipBuild # "unset" =>
          (run.skipBuild = "true" <=> (run.imageExists /\ ~run.forceRebuild))
    /\ run.skipBuild \in {"unset", "true"} =>
          (run.built = {} /\ run.pushed = {})
    /\ run.skipBuild = "true" => run.inRegistry
    /\ (run.skipBuild = "false" /\ run.result = "SUCCESS") =>
          /\ "build" \in run.built
          /\ "build" \in run.pushed

\* A run found the image, skipped the build and the push, and deployed.
C21_Witness ==
    /\ run.skipBuild = "true"
    /\ run.result = "SUCCESS"
    /\ run.deployed # {}
    /\ run.pushed = {}

C23_NotYetConnectedIsDisconnected ==
    /\ Running \/ CrashRequested
    /\ \A r \in Responded :
          /\ (r.early # {} /\ Route(r) \in {"/redis-test", "/mongo-test"}) =>
                /\ r.res.status = 500
                /\ "error" \in DOMAIN r.res.body
          /\ Route(r) = "/health" =>
                /\ r.res.status = 200
                /\ "redis" \in r.early => r.res.body.redis = "disconnected"
                /\ "mongodb" \in r.early => r.res.body.mongodb = "disconnected"

\* ------------------------------------------------------------------------
\* C24.  Startup attempts both connections: once connectDatabases has
\* ended, the store client has been created and its connection attempted,
\* whatever became of the cache connection; and a /mongo-test request finds
\* db undefined only while the store connection is still to be made or has
\* itself failed.
\* ------------------------------------------------------------------------
C24_StoreConnectionAttempted ==
    /\ startPc \in {"done", "failed"} => mongoClient
    /\ \A r \in Responded :
          (Route(r) = "/mongo-test" /\ r.probes.mongo = "throw") =>
              ~(startPc = "failed" /\ ~mongoClient)

\* C25: once SIGTERM is delivered the process exits with code 0 whether
\* redisClient.quit() and mongoClient.close() resolve or reject: a rejected
\* quit() is caught, mongoClient.close() is still called when mongoClient
\* is set, and no exit after the signal has another code.
C25_ExitsZeroWhateverTheCloses ==
    /\ []((exitCode = "0" /\ mongoClient) => closeCalls.mongo >= 1)
    /\ []((nSignals > 0 /\ ~Running) => exitCode = "0")
    /\ (nSignals > 0) ~> (exitCode = "0")

\* The only quit() of the run was rejected, the store was closed after it
\* and the process has exited with code 0.
C25_Witness ==
    /\ nSignals = 1
    /\ closeCalls.redis = 1
    /\ redisClient # "closed"
    /\ closeCalls.mongo = 1
    /\ exitCode = "0"

\* C26: a process that answered /crash has exited with code 1, never 0,
\* with the listener still open, no SIGTERM handler started, and neither
\* redisClient.quit() nor mongoClient.close() called.
C26_CrashBypassesShutdown ==
    \A r \in Responded :
        Route(r) = "/crash" =>
            /\ exitCode = "1"
            /\ listening
            /\ sigterm = EmptyBag
            /\ closeCalls = [redis |-> 0, mongo |-> 0]
            /\ redisClient # "closed"

\* /crash was answered by a process whose two connections were open.
C26_Witness ==
    /\ \E r \in Responded : Route(r) = "/crash"
    /\ ~Running
    /\ redisClient = "ready"
    /\ mongoClient
    /\ db

\* C27: a step that changes redisClient, mongoClient or db, or that calls
\* quit() or close(), is no step of a request handler: no request arrives,
\* advances, is answered or recorded in it.  A handle is assigned or
\* connected by a step of connectDatabases only, and closed by a step of
\* the SIGTERM handler only.
C27_HandlersLeaveTheHandles ==
    [][(<<redisClient, mongoClient, db, closeCalls>>' #
            <<redisClient, mongoClient, db, closeCalls>>) =>
          /\ UNCHANGED <<inflight, nArrived, metricVars, finished>>
          /\ IF \/ closeCalls' # closeCalls
                \/ redisClient # "closed" /\ redisClient' = "closed"
             THEN /\ sigterm' # sigterm
                  /\ UNCHANGED <<startPc, mongoClient, db>>
             ELSE /\ startPc' # startPc
                  /\ UNCHANGED shutVars]_vars

\* A request was answered through handles that startup had connected, and
\* the SIGTERM handler closed the cache client afterwards.
C27_Witness ==
    /\ \E r \in Responded :
          Route(r) \in {"/redis-test", "/mongo-test", "/health"}
    /\ startPc = "done"
    /\ mongoClient
    /\ db
    /\ redisClient = "closed"

\* The steps that resume request r after its cache call, its store call.
CacheSettles(r) ==
    \E o \in Outcomes :
        \/ RedisGetSettled(r, o)
        \/ RedisSetSettled(r, o)
        \/ HealthRedisSettled(r, o)

StoreSettles(r) ==
    \E o \in Outcomes :
        \/ MongoInsertSettled(r, o)
        \/ MongoCountSettled(r, o)
        \/ HealthMongoSettled(r, o)

\* C28: while a request waits for a cache or store call, the server still
\* accepts a request to any route whenever the run has room for one (GET /
\* is answered in the step that accepts it), the response of every other
\* request can finish, and a request that waits for the other dependency
\* is resumed as soon as that dependency answers or refuses.
C28_OnlyTheCallerWaits ==
    \A r \in Requests :
        (Running /\ r.pc \in CacheWaits \cup StoreWaits) =>
            /\ (/\ listening
                /\ nArrived < quota
                /\ BagCardinality(inflight) < MaxInflight) =>
                   /\ ENABLED (\E in \in RequestInputs : GetRoot(in))
                   /\ ENABLED (\E in \in RequestInputs : GetRedisTest(in))
                   /\ ENABLED (\E in \in RequestInputs : GetMongoTest(in))
                   /\ ENABLED (\E in \in RequestInputs : GetHealth(in))
            /\ \A o \in Requests :
                   /\ o.pc = "responded" => ENABLED Finish(o)
                   /\ (/\ r.pc \in CacheWaits
                       /\ o.pc \in StoreWaits
                       /\ MongoReply # {}) => ENABLED StoreSettles(o)
                   /\ (/\ r.pc \in StoreWaits
                       /\ o.pc \in CacheWaits
                       /\ RedisReply # {}) => ENABLED CacheSettles(o)

\* A /redis-test request waits for a read that cannot return yet (the
\* client is still connecting), a GET / has been answered and its response
\* has finished, and the next request can arrive.
C28_Witness ==
    /\ RedisReply = {}
    /\ \E r \in Requests : r.pc = "redis_get"
    /\ \E f \in BagToSet(finished) :
          f.method = "GET" /\ f.path = "/" /\ f.status = 200
    /\ nArrived = 2
    /\ ENABLED (\E in \in RequestInputs : GetMongoTest(in))

\* C29: in every step each label combination that has a sample of the
\* counter or of the histogram keeps it, and neither the counter's value
\* nor the histogram's number of observations for it gets smaller.
C29_SamplesNeverDecrease ==
    [][/\ DOMAIN httpRequestCount \subseteq DOMAIN httpRequestCount'
       /\ \A l \in DOMAIN httpRequestCount :
             httpRequestCount'[l] >= httpRequestCount[l]
       /\ DOMAIN httpRequestDuration \subseteq DOMAIN httpRequestDuration'
       /\ \A l \in DOMAIN httpRequestDuration :
             httpRequestDuration'[l] >= httpRequestDuration[l]]_vars

\* One label combination has been counted and observed twice, after or
\* before the first sample of another one.
C29_Witness ==
    \E l, m \in DOMAIN httpRequestCount \cap DOMAIN httpRequestDuration :
        /\ l # m
        /\ httpRequestCount[l] = 2
        /\ httpRequestDuration[l] = 2
        /\ httpRequestCount[m] = 1

\* C30: a /redis-test or /mongo-test request whose client disconnected
\* while it was in progress goes on as any other: when its pending call
\* succeeds, the handler is resumed and issues the next call (the write of
\* the count it computed, the count of the documents), the write stores
\* that count and the insert adds one document.
C30_NoCancellation ==
    \A r \in Requests :
        (Running /\ r.gone) =>
            /\ (r.pc = "redis_get" /\ "ok" \in RedisReply) =>
                   ENABLED (/\ RedisGetSettled(r, "ok")
                            /\ \E n \in Requests' :
                                  /\ n.gone
                                  /\ n.pc = "redis_set"
                                  /\ n.newCount = NewCount(redisStore))
            /\ (r.pc = "redis_set" /\ "ok" \in RedisReply) =>
                   ENABLED (/\ RedisSetSettled(r, "ok")
                            /\ redisStore' = RedisSetValue(r.newCount))
            /\ (r.pc = "mongo_insert" /\ "ok" \in MongoReply) =>
                   ENABLED (/\ MongoInsertSettled(r, "ok")
                            /\ visits' = visits + 1
                            /\ \E n \in Requests' :
                                  n.gone /\ n.pc = "mongo_count")
            /\ (r.pc = "mongo_count" /\ "ok" \in MongoReply) =>
                   ENABLED MongoCountSettled(r, "ok")

\* The client of a /redis-test request went away during the read; the
\* handler has written the count since and answered 200 with it.
C30_Witness ==
    \E r \in Responded :
        /\ r.gone
        /\ Route(r) = "/redis-test"
        /\ r.res.status = 200
        /\ redisStore = RedisSetValue(r.newCount)

\* C31: in every state in which a handler may run, /metrics rendering the
\* registry among them, the counter and the histogram have samples for the
\* same label combinations and, for each, the counter's value is the
\* histogram's number of observations.
C31_CountEqualsObservations ==
    Running =>
        /\ DOMAIN httpRequestCount = DOMAIN httpRequestDuration
        /\ \A l \in DOMAIN httpRequestCount :
              httpRequestCount[l] = httpRequestDuration[l]

\* /metrics is about to render the registry, which holds a sample, while
\* the response of another request has not finished yet.
C31_Witness ==
    /\ Running
    /\ \E r \in Requests : r.pc = "metrics_await"
    /\ \E o \in Responded : Route(o) # "/metrics"
    /\ \E l \in DOMAIN httpRequestCount : httpRequestCount[l] = 1

\* C32: the stored visit_count never decreases: in every step the count
\* under the key is at least the count that was there before the step.
C32_StoredCountNeverDecreases ==
    [][StoredCount' >= StoredCount]_vars

\* The /redis-test responses a step adds with the given status code.
NewRedisTestResponses(code) ==
    {n \in Responded' :
        /\ Route(n) = "/redis-test"
        /\ n.res.status = code
        /\ CopiesIn(n, inflight') > CopiesIn(n, inflight)}

\* C33: a handler waits for its write only after its read has succeeded; a
\* step that answers a /redis-test request with 500 leaves the stored
\* visit_count as it is; a step that answers one with 200 is the step in
\* which its write succeeds and stores the count it answers with; and the
\* stored value changes in such a step only.
C33_FailedRequestWritesNothing ==
    /\ [](\A r \in Requests : r.pc = "redis_set" => r.probes.redis = "ok")
    /\ [][/\ NewRedisTestResponses(500) # {} => redisStore' = redisStore
          /\ \A n \in NewRedisTestResponses(200) :
                /\ redisStore' = RedisSetValue(n.res.body.visit_count)
                /\ \E r \in Requests :
                      r.pc = "redis_set" /\ r.newCount = n.res.body.visit_count
          /\ redisStore' # redisStore => NewRedisTestResponses(200) # {}]_vars

\* A request read the key, computed the count 1, and its write was
\* rejected: it has been answered 500 and the key is still empty.
C33_Witness ==
    \E r \in Responded :
        /\ Route(r) = "/redis-test"
        /\ r.res.status = 500
        /\ r.newCount = 1
        /\ redisStore = JsNull

\* The /mongo-test requests answered 200, finished or not.
MongoTestAnswered200 ==
    MongoTestDone +
    SumOver(inflight, {r \in Responded :
                          Route(r) = "/mongo-test" /\ r.res.status = 200})

\* The /mongo-test requests whose insert is done and whose count is awaited.
MongoTestCounting ==
    SumOver(inflight, {r \in Requests : r.pc = "mongo_count"})

\* C34: a /mongo-test request answered 500 has added no document: the
\* collection holds the initial documents, one for each /mongo-test request
\* answered 200, and one for each request still between its insert and its
\* answer.
C34_FailedRequestInsertsNothing ==
    visits = InitialVisits + MongoTestAnswered200 + MongoTestCounting

\* The requests a step brings to one of the given positions: the handler
\* issues the call it then waits for.
Issued(waits) ==
    {n \in Requests' :
        n.pc \in waits /\ CopiesIn(n, inflight') > CopiesIn(n, inflight)}

\* C35: once the SIGTERM handler has called redisClient.quit() no request
\* handler issues a cache command, and once it has called
\* mongoClient.close() none issues a store command, the handlers of the
\* requests that were in flight when the signal arrived included.
C35_NoCallOnAClosedHandle ==
    [][/\ closeCalls.redis > 0 => Issued(CacheWaits) = {}
       /\ closeCalls.mongo > 0 => Issued(StoreWaits) = {}]_vars

\* C36: connectDatabases runs once: after it has ended, connected or not,
\* no step changes the clients or db again.  If it ended in its catch, db
\* is unset and stays so, and every /mongo-test request is answered 500
\* without a call to the store, whether the store is reachable or not.
C36_NoRetryNoReconnect ==
    /\ [][(startPc \in {"done", "failed"}) => UNCHANGED startVars]_vars
    /\ [](startPc = "failed" =>
             /\ ~db
             /\ \A r \in Requests :
                   Route(r) = "/mongo-test" =>
                       /\ r.pc = "responded"
                       /\ r.probes.mongo = "throw"
                       /\ r.res.status = 500
             /\ \A e \in DOMAIN finished :
                   Route(e) = "/mongo-test" => e.status = 500)

\* The routine gave up; since then a /mongo-test request has been answered
\* 500 and has finished, and another one has been answered 500 while the
\* store was reachable.
C36_Witness ==
    /\ startPc = "failed"
    /\ mongoServer = "up"
    /\ \E e \in DOMAIN finished : Route(e) = "/mongo-test" /\ e.status = 500
    /\ \E r \in Responded :
          /\ Route(r) = "/mongo-test"
          /\ r.probes.storeUp
          /\ r.res.status = 500

\* C37: a run deploys to at most one environment, the one TARGET_ENVIRONMENT
\* names; a Deploy stage can run only for that environment, in a run that
\* has not ended, after Build Preparation and, unless the build was
\* skipped, after a successful build and push; a run that has failed has
\* deployed nothing.
C37_OnlyTheTargetIsDeployed ==
    /\ run.deployed \subseteq {run.target}
    /\ run.result = "FAILURE" => run.deployed = {}
    /\ \A e \in Environments :
          (e \in run.deployed \/ ENABLED (\E ok \in BOOLEAN : DeployTo(e, ok))) =>
              /\ e = run.target
              /\ run.skipBuild # "unset"
              /\ run.skipBuild = "false" =>
                    /\ run.build = "done"
                    /\ "build" \in run.pushed
    /\ \A e \in Environments :
          ENABLED (\E ok \in BOOLEAN : DeployTo(e, ok)) =>
              /\ run.result = "running"
              /\ run.deployed = {}

\* A run for prod that built and pushed the image has succeeded and has
\* deployed to prod only.
C37_Witness ==
    /\ run.target = "prod"
    /\ run.result = "SUCCESS"
    /\ run.skipBuild = "false"
    /\ run.deployed = {"prod"}

\* C38: the image is tagged or pushed as latest only in a run for dev that
\* builds it; a run for qa, staging or prod tags and pushes nothing but
\* the build tag; latest is pushed only after the build tag; and a run
\* that has built the image and has got through Push to Registry has
\* pushed the build tag.
C38_LatestOnlyForDev ==
    /\ "latest" \in run.built \cup run.pushed =>
          /\ run.target = "dev"
          /\ run.skipBuild = "false"
          /\ "build" \in run.built
    /\ run.target # "dev" =>
          /\ run.built \subseteq {"build"}
          /\ run.pushed \subseteq {"build"}
    /\ run.pushed \subseteq run.built
    /\ "latest" \in run.pushed => "build" \in run.pushed
    /\ (/\ run.build = "done"
        /\ run.stage > StageNo("Push to Registry")
        /\ run.result \in {"running", "SUCCESS"}) =>
           run.pushed = Tags(run.target)

\* A run for dev has built the image and pushed it under both tags.
C38_Witness ==
    /\ run.target = "dev"
    /\ run.build = "done"
    /\ run.pushed = {"build", "latest"}
    /\ run.result = "SUCCESS"

====
